---- MODULE Spec2Model ----
(***************************************************************************)
(* Model of es_knowledge_base_mcp/models/settings.py: the settings groups, *)
(* their construction from the process environment (the class bodies are   *)
(* evaluated top to bottom, every `Field(default=Group())` constructing    *)
(* its group on the spot), the root aggregate, and the derived views.      *)
(*                                                                         *)
(* Conventions.  An Optional value is a sequence of length at most one:    *)
(* <<>> is None / "variable absent", <<v>> is the value v.  The raw text   *)
(* of an integer variable is a sequence of one-character strings, the raw  *)
(* text of a URL is a sequence of lexemes (words, "://", ":", "/", single  *)
(* digits).  A mapping (dict) is a function whose DOMAIN is its key set.   *)
(*                                                                         *)
(* lastOp and result hold the most recent operation on the settings tree   *)
(* and what it returned or raised; log holds the records that operation    *)
(* sent to the logger and reveals the secrets whose plaintext it read.     *)
(***************************************************************************)
EXTENDS Integers, Sequences, FiniteSets, TLC

VARIABLES env, pc, defaults, settings, errors, log, reveals, lastOp, result, assigns, root_logging

vars == <<env, pc, defaults, settings, errors, log, reveals, lastOp, result, assigns, root_logging>>

\* ------------------------------------------------------------------ bounds
\* Number of post-construction field assignments explored.
MaxAssign == 1

\* Number of environment variables that are set when the process starts.
MaxEnvVars == 3

\* ------------------------------------------------------ Optional and truth
None == <<>>

Some(v) == <<v>>

\* Python truthiness of an Optional[str] / Optional[SecretStr]: None and the
\* empty string (SecretStr defines __len__) are both falsy.
Truthy(o) == o # None /\ o[1] # ""

\* ------------------------------------------------------------ int parsing
Digits == {"0", "1", "2", "3", "4", "5", "6", "7", "8", "9"}

DigitVal(c) ==
    CASE c = "0" -> 0 [] c = "1" -> 1 [] c = "2" -> 2 [] c = "3" -> 3
      [] c = "4" -> 4 [] c = "5" -> 5 [] c = "6" -> 6 [] c = "7" -> 7
      [] c = "8" -> 8 [] c = "9" -> 9

AllDigits(s) == \A i \in 1..Len(s) : s[i] \in Digits

RECURSIVE DigitsValue(_)
DigitsValue(s) ==
    IF s = <<>> THEN 0
    ELSE 10 * DigitsValue(SubSeq(s, 1, Len(s) - 1)) + DigitVal(s[Len(s)])

\* Can the raw text be coerced to the declared type `int`?
IsIntText(s) ==
    /\ s # <<>>
    /\ IF s[1] \in {"-", "+"} THEN Len(s) > 1 /\ AllDigits(Tail(s)) ELSE AllDigits(s)

ParseInt(s) ==
    IF s[1] = "-" THEN 0 - DigitsValue(Tail(s))
    ELSE IF s[1] = "+" THEN DigitsValue(Tail(s))
    ELSE DigitsValue(s)

\* ------------------------------------------------------------ URL parsing
Separators == {":", "//", "/"}

DigitChar(d) ==
    CASE d = 0 -> "0" [] d = 1 -> "1" [] d = 2 -> "2" [] d = 3 -> "3"
      [] d = 4 -> "4" [] d = 5 -> "5" [] d = 6 -> "6" [] d = 7 -> "7"
      [] d = 8 -> "8" [] d = 9 -> "9"

RECURSIVE ToDigits(_)
ToDigits(n) == IF n < 10 THEN <<DigitChar(n)>> ELSE ToDigits(n \div 10) \o <<DigitChar(n % 10)>>

\* The text of a URL with the given scheme, host component and optional port.
UrlText(u) ==
    <<u.scheme, ":", "//", u.name>> \o
        (IF u.port = None THEN <<>> ELSE <<":">> \o ToDigits(u.port[1]))

\* Index of the first occurrence of lexeme c in s, 0 when there is none (str.find).
RECURSIVE Find(_, _, _)
Find(s, c, i) ==
    IF i > Len(s) THEN 0 ELSE IF s[i] \in c THEN i ELSE Find(s, c, i + 1)

RECURSIVE Join(_)
Join(s) == IF s = <<>> THEN "" ELSE Head(s) \o Join(Tail(s))

\* urlsplit: a scheme is the text before the first ":" when that text starts
\* with a letter and holds only scheme characters.
HasScheme(url) ==
    LET i == Find(url, {":"}, 1) IN
    /\ i > 1
    /\ url[1] \notin Digits
    /\ \A k \in 1..(i - 1) : url[k] \notin Separators

UrlScheme(url) ==
    IF HasScheme(url) THEN Join(SubSeq(url, 1, Find(url, {":"}, 1) - 1)) ELSE ""

AfterScheme(url) ==
    IF HasScheme(url) THEN SubSeq(url, Find(url, {":"}, 1) + 1, Len(url)) ELSE url

\* The network location: what follows a leading "//", up to the next "/".
UrlNetloc(url) ==
    LET rest == AfterScheme(url) IN
    IF rest # <<>> /\ rest[1] = "//"
    THEN LET body == Tail(rest)
             j == Find(body, {"/", "//"}, 1)
         IN IF j = 0 THEN body ELSE SubSeq(body, 1, j - 1)
    ELSE <<>>

\* ParseResult.hostname: the netloc before its first ":", None when empty.
UrlHostname(url) ==
    LET n == UrlNetloc(url)
        i == Find(n, {":"}, 1)
        h == IF i = 0 THEN n ELSE SubSeq(n, 1, i - 1)
    IN IF h = <<>> THEN None ELSE Some(Join(h))

\* The port text: what follows the first ":" of the netloc.
UrlPortText(url) ==
    LET n == UrlNetloc(url)
        i == Find(n, {":"}, 1)
    IN IF i = 0 THEN <<>> ELSE SubSeq(n, i + 1, Len(n))

\* ParseResult.port raises ValueError when the port text is not a number
\* or is out of range 0-65535.
UrlPortRaises(url) ==
    LET t == UrlPortText(url) IN
    /\ t # <<>>
    /\ \/ ~AllDigits(t)
       \/ DigitsValue(t) > 65535

\* ParseResult.port when it does not raise: None without port text.
UrlPort(url) ==
    LET t == UrlPortText(url) IN
    IF t = <<>> THEN None ELSE Some(DigitsValue(t))

\* ------------------------------------------------------------- the inputs
\* Well-formed host URLs, by their parts.
UrlInputs ==
    { [scheme |-> "https", name |-> "example.com", port |-> None],
      [scheme |-> "http",  name |-> "example.com", port |-> None],
      [scheme |-> "http",  name |-> "example.com", port |-> Some(8080)],
      [scheme |-> "https", name |-> "es.internal", port |-> Some(9243)],
      [scheme |-> "http",  name |-> "example.com", port |-> Some(0)] }

\* Host texts that are not well-formed URLs with a valid port.
OddHosts ==
    { <<"http", ":", "//", "es", ":", "9", "9", "9", "9", "9">>,
      <<"http", ":", "//", "es", ":", "abc">>,
      <<"localhost", ":", "9", "2", "0", "0">> }

HostTexts == {UrlText(u) : u \in UrlInputs} \cup OddHosts

UsernameInputs == {None, Some(""), Some("elastic")}

PasswordInputs == {None, Some(""), Some("pw")}

ApiKeyInputs == {None, Some(""), Some("key")}

TimeoutInputs == {None, Some(<<"a", "b", "c">>), Some(<<"-", "1">>), Some(<<"0">>), Some(<<"3", "0">>)}

MaxItemsInputs == {None, Some(<<"0">>), Some(<<"x">>)}

MaxBytesInputs == {None, Some(<<"-", "5">>)}

IndexPrefixInputs == {None, Some("docs")}

TransportInputs == {None, Some("sse"), Some("http")}

LogLevelInputs == {None, Some("DEBUG")}

LearnPrefixInputs == {None, Some("learn.")}

MemoryPrefixInputs == {None, Some("mem.")}

\* The process environment: variable name -> Optional raw text.
Environments ==
    [ ES_USERNAME : UsernameInputs,
      ES_PASSWORD : PasswordInputs,
      ES_API_KEY : ApiKeyInputs,
      ES_HOST : {None} \cup {Some(h) : h \in HostTexts},
      ES_REQUEST_TIMEOUT : TimeoutInputs,
      ES_BULK_API_MAX_ITEMS : MaxItemsInputs,
      ES_BULK_API_MAX_SIZE_BYTES : MaxBytesInputs,
      ES_INDEX_PREFIX : IndexPrefixInputs,
      MCP_TRANSPORT : TransportInputs,
      MCP_LOG_LEVEL : LogLevelInputs,
      KB_DOCS_INDEX_PREFIX : LearnPrefixInputs,
      MEMORY_INDEX_PREFIX : MemoryPrefixInputs ]

SetVariables(e) == {n \in DOMAIN e : e[n] # None}

\* -------------------------------------------------------- field population
\* A field takes the text of its variable, or its declared default.
Field(e, name, default) == IF e[name] = None THEN default ELSE e[name][1]

\* An int field: the parsed text, or the default; 0 stands in when the text
\* does not parse (the group is then not constructed, see IntErrors).
IntField(e, name, default) ==
    IF e[name] = None THEN default
    ELSE IF IsIntText(e[name][1]) THEN ParseInt(e[name][1]) ELSE 0

Error(group, field, msg) == [group |-> group, field |-> field, msg |-> msg]

Built(v) == [ok |-> TRUE, value |-> v, errors |-> {}]

Failed(errs) == [ok |-> FALSE, value |-> None, errors |-> errs]

\* ---------------------------------------------------------- setting groups
TransportSettings(e) ==
    LET t == Field(e, "MCP_TRANSPORT", "stdio") IN
    IF t \in {"stdio", "sse"}
    THEN Built([mcp_transport |-> t])
    ELSE Failed({Error("mcps", "mcp_transport", "literal_error")})

LoggingSettings(e) ==
    Built([log_level |-> Field(e, "MCP_LOG_LEVEL", "INFO"),
           log_format |-> "%(asctime)s : pid - %(name)s - %(levelname)s - %(message)s",
           log_file |-> None])

\* validate_authentication without its last check (password without username).
validate_authentication_NoPasswordRule(a) ==
    IF Truthy(a.api_key) /\ (Truthy(a.username) \/ Truthy(a.password))
    THEN Some("Cannot use both API key and basic authentication.")
    ELSE IF Truthy(a.username) /\ ~Truthy(a.password)
    THEN Some("Username requires a password.")
    ELSE None

\* The message of the ValueError the validator raises, None when it returns self.
validate_authentication(a) ==
    IF Truthy(a.api_key) /\ (Truthy(a.username) \/ Truthy(a.password))
    THEN Some("Cannot use both API key and basic authentication.")
    ELSE IF Truthy(a.username) /\ ~Truthy(a.password)
    THEN Some("Username requires a password.")
    ELSE IF Truthy(a.password) /\ ~Truthy(a.username)
    THEN Some("Password requires a username.")
    ELSE None

ElasticsearchAuthenticationSettings(e) ==
    LET a == [username |-> e["ES_USERNAME"],
              password |-> e["ES_PASSWORD"],
              api_key  |-> e["ES_API_KEY"]]
        v == validate_authentication(a)
    IN IF v = None THEN Built(a)
       ELSE Failed({Error("authentication", "model", v[1])})

IntVariables ==
    { <<"ES_REQUEST_TIMEOUT", "request_timeout">>,
      <<"ES_BULK_API_MAX_ITEMS", "bulk_api_max_items">>,
      <<"ES_BULK_API_MAX_SIZE_BYTES", "bulk_api_max_size_bytes">> }

\* Every int field whose text does not parse is reported.
IntErrors(e) ==
    { Error("elasticsearch", f[2], "int_parsing") :
        f \in {g \in IntVariables : e[g[1]] # None /\ ~IsIntText(e[g[1]][1])} }

DefaultHost == <<"https", ":", "//", "localhost", ":", "9", "2", "0", "0">>

ElasticsearchSettings(e, authentication) ==
    IF IntErrors(e) # {} THEN Failed(IntErrors(e))
    ELSE Built([host |-> Field(e, "ES_HOST", DefaultHost),
                request_timeout |-> IntField(e, "ES_REQUEST_TIMEOUT", 600),
                index_prefix |-> Field(e, "ES_INDEX_PREFIX", "kbmcp-docs.*"),
                bulk_api_max_items |-> IntField(e, "ES_BULK_API_MAX_ITEMS", 200),
                bulk_api_max_size_bytes |-> IntField(e, "ES_BULK_API_MAX_SIZE_BYTES", 10485760),
                authentication |-> authentication])

KnowledgeBaseServerSettings(e) == Built([base_index_prefix |-> "kbmcp-"])

LearnServerSettings(e) == Built([learn_index_prefix |-> Field(e, "KB_DOCS_INDEX_PREFIX", "kbmcp-docs.")])

MemoryServerSettings(e) == Built([memory_index_prefix |-> Field(e, "MEMORY_INDEX_PREFIX", "kbmcp-memories.")])

CrawlerSettings(e) ==
    Built([elasticsearch_pipeline |-> "search-default-ingestion",
           docker_image |-> "ghcr.io/strawgate/es-crawler:main"])

\* ------------------------------------------------------------ derived views
Return(v) == [kind |-> "return", value |-> v]

Raise(x) == [kind |-> "raise", value |-> x]

NoResult == [kind |-> "none", value |-> None]

host_port(es) ==
    IF UrlPortRaises(es.host) THEN Raise("ValueError")
    ELSE LET port == UrlPort(es.host) IN
         Return(IF port # None /\ port[1] # 0 THEN port[1]
                ELSE IF UrlScheme(es.host) = "https" THEN 443 ELSE 80)

host_scheme(es) == Return(UrlScheme(es.host))

host_name(es) == Return(UrlHostname(es.host))

index_pattern(es) == Return(es.index_prefix \o "-*")

base_index_pattern(kb) == Return(kb.base_index_prefix \o "*")

learn_index_pattern(l) == Return(l.learn_index_prefix \o "*")

memory_index_pattern(m) == Return(m.memory_index_prefix \o "*")

\* SecretStr.get_secret_value
get_secret_value(secret) == secret[1]

\* _get_auth_dict with the warning logged after the branches instead of in
\* the else branch.
_get_auth_dict_WarnAlways(es) ==
    LET a == es.authentication IN
    IF Truthy(a.api_key)
    THEN [dict |-> [k \in {"api_key"} |-> get_secret_value(a.api_key)],
          warned |-> TRUE, revealed |-> {"api_key"}]
    ELSE IF Truthy(a.username) /\ Truthy(a.password)
    THEN [dict |-> [k \in {"basic_auth"} |-> <<a.username[1], get_secret_value(a.password)>>],
          warned |-> TRUE, revealed |-> {"password"}]
    ELSE [dict |-> <<>>, warned |-> TRUE, revealed |-> {}]

\* The authentication entries, whether the warning was logged, and the
\* secrets whose plaintext was revealed.
_get_auth_dict(es) ==
    LET a == es.authentication IN
    IF Truthy(a.api_key)
    THEN [dict |-> [k \in {"api_key"} |-> get_secret_value(a.api_key)],
          warned |-> FALSE, revealed |-> {"api_key"}]
    ELSE IF Truthy(a.username) /\ Truthy(a.password)
    THEN [dict |-> [k \in {"basic_auth"} |-> <<a.username[1], get_secret_value(a.password)>>],
          warned |-> FALSE, revealed |-> {"password"}]
    ELSE [dict |-> <<>>, warned |-> TRUE, revealed |-> {}]

RetryOnStatus == <<408, 429, 502, 503, 504>>

\* to_client_settings without the `**self._get_auth_dict()` entry.
to_client_settings_NoAuth(es) ==
    [ret |-> Return([hosts |-> <<es.host>>,
                     request_timeout |-> es.request_timeout,
                     http_compress |-> TRUE,
                     retry_on_status |-> RetryOnStatus,
                     retry_on_timeout |-> TRUE,
                     max_retries |-> 5]),
     warned |-> FALSE, revealed |-> {}]

to_client_settings(es) ==
    LET auth == _get_auth_dict(es) IN
    [ret |-> Return([hosts |-> <<es.host>>,
                     request_timeout |-> es.request_timeout,
                     http_compress |-> TRUE,
                     retry_on_status |-> RetryOnStatus,
                     retry_on_timeout |-> TRUE,
                     max_retries |-> 5] @@ auth.dict),
     warned |-> auth.warned, revealed |-> auth.revealed]

\* The mapping is built entry by entry: host_port is evaluated, and may
\* raise, before _get_auth_dict is called.
to_crawler_settings(es) ==
    LET port == host_port(es)
        auth == _get_auth_dict(es)
    IN IF port.kind = "raise"
       THEN [ret |-> port, warned |-> FALSE, revealed |-> {}]
       ELSE [ret |-> Return(("host" :> es.host) @@
                            ("port" :> port.value) @@
                            ("request_timeout" :> es.request_timeout) @@
                            ("bulk_api.max_items" :> es.bulk_api_max_items) @@
                            ("bulk_api.max_size_bytes" :> es.bulk_api_max_size_bytes) @@
                            auth.dict),
             warned |-> auth.warned, revealed |-> auth.revealed]

\* ------------------------------------------------------------ construction
Init ==
    /\ env \in {e \in Environments : Cardinality(SetVariables(e)) <= MaxEnvVars}
    /\ pc = "authentication"
    /\ defaults = <<>>
    /\ settings = None
    /\ errors = {}
    /\ log = {}
    /\ reveals = {}
    /\ lastOp = "none"
    /\ result = NoResult
    /\ assigns = 0
    /\ root_logging = None

\* Evaluating `name: Group = Field(default=Group())` in a class body: the
\* group is constructed on the spot; its exception, if any, ends the import.
EvalDefault(group, built, next) ==
    /\ pc = group
    /\ IF built.ok
       THEN /\ defaults' = (group :> built.value) @@ defaults
            /\ pc' = next
            /\ UNCHANGED errors
       ELSE /\ pc' = "failed"
            /\ errors' = built.errors
            /\ UNCHANGED defaults
    /\ UNCHANGED <<env, settings, log, reveals, lastOp, result, assigns, root_logging>>

Default_authentication ==
    EvalDefault("authentication", ElasticsearchAuthenticationSettings(env), "mcps")

Default_mcps == EvalDefault("mcps", TransportSettings(env), "logging")

Default_logging == EvalDefault("logging", LoggingSettings(env), "elasticsearch")

Default_elasticsearch ==
    /\ pc = "elasticsearch"
    /\ EvalDefault("elasticsearch",
                   ElasticsearchSettings(env, defaults["authentication"]),
                   "knowledge_base")

Default_knowledge_base ==
    EvalDefault("knowledge_base", KnowledgeBaseServerSettings(env), "learn")

Default_learn == EvalDefault("learn", LearnServerSettings(env), "memory")

Default_memory == EvalDefault("memory", MemoryServerSettings(env), "crawler")

Default_crawler == EvalDefault("crawler", CrawlerSettings(env), "imported")

\* DocsManagerSettings(): every group takes its class-level default.
DocsManagerSettings ==
    /\ pc = "imported"
    /\ settings' = Some([mcps |-> defaults["mcps"],
                         logging |-> defaults["logging"],
                         elasticsearch |-> defaults["elasticsearch"],
                         knowledge_base |-> defaults["knowledge_base"],
                         learn |-> defaults["learn"],
                         memory |-> defaults["memory"],
                         crawler |-> defaults["crawler"]])
    /\ pc' = "ready"
    /\ UNCHANGED <<env, defaults, errors, log, reveals, lastOp, result, assigns, root_logging>>

\* ------------------------------------------------- operations on the tree
\* A property read: the value or the exception, nothing else changes.
Read(op, r) ==
    /\ pc = "ready"
    /\ lastOp' = op
    /\ result' = r
    /\ log' = {}
    /\ reveals' = {}
    /\ UNCHANGED <<env, pc, defaults, settings, errors, assigns, root_logging>>

Get_host_port == pc = "ready" /\ Read("host_port", host_port(settings[1].elasticsearch))

Get_host_scheme == pc = "ready" /\ Read("host_scheme", host_scheme(settings[1].elasticsearch))

Get_host_name == pc = "ready" /\ Read("host_name", host_name(settings[1].elasticsearch))

Get_index_pattern == pc = "ready" /\ Read("index_pattern", index_pattern(settings[1].elasticsearch))

Get_base_index_pattern ==
    pc = "ready" /\ Read("base_index_pattern", base_index_pattern(settings[1].knowledge_base))

Get_learn_index_pattern ==
    pc = "ready" /\ Read("learn_index_pattern", learn_index_pattern(settings[1].learn))

Get_memory_index_pattern ==
    pc = "ready" /\ Read("memory_index_pattern", memory_index_pattern(settings[1].memory))

NoAuthWarning == "No authentication method specified for Elasticsearch."

\* A view derivation: the mapping or the exception, the warning logged by
\* _get_auth_dict and the secrets it revealed.
Derive(op, v) ==
    /\ lastOp' = op
    /\ result' = v.ret
    /\ log' = IF v.warned THEN {NoAuthWarning} ELSE {}
    /\ reveals' = v.revealed
    /\ UNCHANGED <<env, pc, defaults, settings, errors, assigns, root_logging>>

Call_to_client_settings ==
    pc = "ready" /\ Derive("to_client_settings", to_client_settings(settings[1].elasticsearch))

Call_to_crawler_settings ==
    pc = "ready" /\ Derive("to_crawler_settings", to_crawler_settings(settings[1].elasticsearch))

\* logging.basicConfig(..., force=True) installs the configuration process-wide.
configure_logging ==
    /\ pc = "ready"
    /\ root_logging' = Some([level |-> settings[1].logging.log_level,
                             format |-> settings[1].logging.log_format,
                             filename |-> settings[1].logging.log_file,
                             filemode |-> "a"])
    /\ lastOp' = "configure_logging"
    /\ result' = Return("logger")
    /\ log' = {}
    /\ reveals' = {}
    /\ UNCHANGED <<env, pc, defaults, settings, errors, assigns>>

\* `settings.elasticsearch.<field> = value` and
\* `settings.elasticsearch.authentication.<field> = value`: the model_config
\* sets neither frozen nor validate_assignment, so the value is stored as is.
AssignValues ==
    [ username |-> {Some("kibana")},
      password |-> {None},
      api_key |-> {Some("key2")},
      request_timeout |-> {5},
      host |-> {UrlText([scheme |-> "http", name |-> "other", port |-> None])} ]

AuthFields == {"username", "password", "api_key"}

SetField(tree, field, value) ==
    IF field \in AuthFields
    THEN [tree EXCEPT !.elasticsearch.authentication[field] = value]
    ELSE [tree EXCEPT !.elasticsearch[field] = value]

Assign ==
    /\ pc = "ready"
    /\ assigns < MaxAssign
    /\ \E field \in DOMAIN AssignValues : \E value \in AssignValues[field] :
          settings' = Some(SetField(settings[1], field, value))
    /\ assigns' = assigns + 1
    /\ lastOp' = "assign"
    /\ result' = NoResult
    /\ log' = {}
    /\ reveals' = {}
    /\ UNCHANGED <<env, pc, defaults, errors, root_logging>>

Next ==
    \/ Default_authentication
    \/ Default_mcps
    \/ Default_logging
    \/ Default_elasticsearch
    \/ Default_knowledge_base
    \/ Default_learn
    \/ Default_memory
    \/ Default_crawler
    \/ DocsManagerSettings
    \/ Get_host_port
    \/ Get_host_scheme
    \/ Get_host_name
    \/ Get_index_pattern
    \/ Get_base_index_pattern
    \/ Get_learn_index_pattern
    \/ Get_memory_index_pattern
    \/ Call_to_client_settings
    \/ Call_to_crawler_settings
    \/ configure_logging
    \/ Assign

Spec == Init /\ [][Next]_vars

\* ---------------------------------------------------------------- properties
\* A value is "set" when it is present and non-empty, which is what the
\* conditions of validate_authentication and _get_auth_dict test.
UsernameSet(a) == a.username # None /\ a.username[1] # ""

PasswordSet(a) == a.password # None /\ a.password[1] # ""

ApiKeySet(a) == a.api_key # None /\ a.api_key[1] # ""

ApiKeyOnly(a) == ApiKeySet(a) /\ ~UsernameSet(a) /\ ~PasswordSet(a)

BasicOnly(a) == UsernameSet(a) /\ PasswordSet(a) /\ ~ApiKeySet(a)

NoAuth(a) == ~UsernameSet(a) /\ ~PasswordSet(a) /\ ~ApiKeySet(a)

EnvAuth == [username |-> env["ES_USERNAME"],
            password |-> env["ES_PASSWORD"],
            api_key  |-> env["ES_API_KEY"]]

AuthKeys == {"api_key", "basic_auth"}

Views == {"to_client_settings", "to_crawler_settings"}

\* C1: once construction of the authentication group has been attempted, the
\* group exists exactly when the environment sets api_key alone, username
\* with password and no api_key, or none of the three; in every other
\* combination construction has failed with one validation error of the
\* authentication group and there is no settings object.
C1_AuthenticationCombinations ==
    pc # "authentication" =>
        LET allowed == ApiKeyOnly(EnvAuth) \/ BasicOnly(EnvAuth) \/ NoAuth(EnvAuth) IN
        /\ allowed <=> "authentication" \in DOMAIN defaults
        /\ allowed => defaults["authentication"] = EnvAuth
        /\ ~allowed =>
              /\ pc = "failed"
              /\ settings = None
              /\ Cardinality(errors) = 1
              /\ \A x \in errors : x.group = "authentication"

C1_Witness ==
    /\ pc = "failed"
    /\ ApiKeySet(EnvAuth)
    /\ PasswordSet(EnvAuth)
    /\ errors # {}

\* C2: to_client_settings returns a mapping with exactly the six connection
\* entries (hosts = [host], request_timeout, http_compress, retry_on_status,
\* retry_on_timeout, max_retries = 5) and the authentication entry of the
\* configured mode: api_key = the plaintext key for api_key alone,
\* basic_auth = (username, plaintext password) for username with password,
\* no authentication entry when nothing is configured; never both entries.
C2_ClientSettings ==
    lastOp = "to_client_settings" =>
        LET es == settings[1].elasticsearch
            a == es.authentication
        IN
        /\ result.kind = "return"
        /\ LET v == result.value IN
           /\ {"hosts", "request_timeout", "http_compress", "retry_on_status",
               "retry_on_timeout", "max_retries"} = DOMAIN v \ AuthKeys
           /\ v["hosts"] = <<es.host>>
           /\ v["request_timeout"] = es.request_timeout
           /\ v["http_compress"] = TRUE
           /\ v["retry_on_status"] = <<408, 429, 502, 503, 504>>
           /\ v["retry_on_timeout"] = TRUE
           /\ v["max_retries"] = 5
           /\ Cardinality(DOMAIN v \cap AuthKeys) <= 1
           /\ ApiKeyOnly(a) => DOMAIN v \cap AuthKeys = {"api_key"} /\ v["api_key"] = a.api_key[1]
           /\ BasicOnly(a) =>
                 /\ DOMAIN v \cap AuthKeys = {"basic_auth"}
                 /\ v["basic_auth"] = <<a.username[1], a.password[1]>>
           /\ NoAuth(a) => DOMAIN v \cap AuthKeys = {}

C2_Witness ==
    /\ lastOp = "to_client_settings"
    /\ result.kind = "return"
    /\ "basic_auth" \in DOMAIN result.value
    /\ assigns = 0

\* C3: to_crawler_settings returns a mapping with host, port = the derived
\* port, request_timeout, bulk_api.max_items and bulk_api.max_size_bytes,
\* and the same authentication entries as to_client_settings on the same
\* settings.
C3_CrawlerSettings ==
    lastOp = "to_crawler_settings" =>
        LET es == settings[1].elasticsearch
            client == to_client_settings(es).ret.value
        IN
        /\ result.kind = "return"
        /\ LET v == result.value IN
           /\ {"host", "port", "request_timeout", "bulk_api.max_items",
               "bulk_api.max_size_bytes"} = DOMAIN v \ AuthKeys
           /\ v["host"] = es.host
           /\ Return(v["port"]) = host_port(es)
           /\ v["request_timeout"] = es.request_timeout
           /\ v["bulk_api.max_items"] = es.bulk_api_max_items
           /\ v["bulk_api.max_size_bytes"] = es.bulk_api_max_size_bytes
           /\ DOMAIN v \cap AuthKeys = DOMAIN client \cap AuthKeys
           /\ \A k \in DOMAIN v \cap AuthKeys : v[k] = client[k]

\* C4: once the settings tree is constructed, no step changes any field of
\* the root or of a nested group.
C4_FieldsNeverChange == [][pc = "ready" => settings' = settings]_vars

Groups == {"authentication", "mcps", "logging", "elasticsearch",
           "knowledge_base", "learn", "memory", "crawler"}

\* The groups whose own input does not construct them.
FailingGroups(e) ==
    {g \in Groups :
        \/ g = "authentication" /\ ~ElasticsearchAuthenticationSettings(e).ok
        \/ g = "mcps" /\ ~TransportSettings(e).ok
        \/ g = "elasticsearch" /\ IntErrors(e) # {}}

\* C5: a failed construction attempt reports the validation errors of all
\* groups with invalid input together.
C5_AllGroupErrorsReported ==
    pc = "failed" => {x.group : x \in errors} = FailingGroups(env)

\* C7: construction never logs; with nothing configured the authentication
\* group is constructed; the "no authentication" warning is logged only by
\* a view derivation that returns a mapping without credentials, it is
\* logged by every such derivation when no method is configured, and never
\* when an authentication method (api_key, or username with password) is.
C7_NoAuthWarning ==
    /\ pc # "ready" => log = {}
    /\ (NoAuth(EnvAuth) /\ pc # "authentication") => "authentication" \in DOMAIN defaults
    /\ log # {} =>
          /\ log = {NoAuthWarning}
          /\ lastOp \in Views
          /\ result.kind = "return"
          /\ DOMAIN result.value \cap AuthKeys = {}
    /\ (lastOp \in Views /\ result.kind = "return") =>
          LET a == settings[1].elasticsearch.authentication IN
          /\ NoAuth(a) => log = {NoAuthWarning}
          /\ (ApiKeySet(a) \/ (UsernameSet(a) /\ PasswordSet(a))) => log = {}

C7_Witness ==
    /\ lastOp = "to_crawler_settings"
    /\ NoAuth(EnvAuth)
    /\ assigns = 0
    /\ log = {NoAuthWarning}

\* C8: for a well-formed host URL the derived port is the explicit port when
\* there is one, else 443 for https and 80 otherwise; the derived scheme and
\* hostname are the URL's scheme and host component.
C8_HostParts ==
    \A u \in UrlInputs :
        (pc = "ready" /\ settings[1].elasticsearch.host = UrlText(u)) =>
            /\ lastOp = "host_port" =>
                  result = Return(IF u.port # None THEN u.port[1]
                                  ELSE IF u.scheme = "https" THEN 443 ELSE 80)
            /\ lastOp = "host_scheme" => result = Return(u.scheme)
            /\ lastOp = "host_name" => result = Return(Some(u.name))

Accessors ==
    {"host_port", "host_scheme", "host_name", "index_pattern",
     "base_index_pattern", "learn_index_pattern", "memory_index_pattern",
     "to_client_settings", "to_crawler_settings"}

\* C9: on a constructed settings tree every derived-view accessor returns a
\* value, none raises.
C9_AccessorsNeverRaise == lastOp \in Accessors => result.kind = "return"

\* C10: a constructed ElasticsearchSettings has request_timeout,
\* bulk_api_max_items and bulk_api_max_size_bytes all > 0, and the defaults
\* 600, 200 and 10485760 where the variable is absent.
C10_PositiveIntegers ==
    "elasticsearch" \in DOMAIN defaults =>
        LET es == defaults["elasticsearch"] IN
        /\ es.request_timeout > 0
        /\ es.bulk_api_max_items > 0
        /\ es.bulk_api_max_size_bytes > 0
        /\ env["ES_REQUEST_TIMEOUT"] = None => es.request_timeout = 600
        /\ env["ES_BULK_API_MAX_ITEMS"] = None => es.bulk_api_max_items = 200
        /\ env["ES_BULK_API_MAX_SIZE_BYTES"] = None => es.bulk_api_max_size_bytes = 10485760

====
